---- MODULE Spec2Model ----
(***************************************************************************)
(* Model of the Hockey Game Counter: src/utils/nhl_api.py (schedule fetch  *)
(* and per-team aggregation) and the update_table callback of src/app.py   *)
(* (rows, sort, table).  One behaviour is one run of the callback.         *)
(***************************************************************************)
EXTENDS Integers, Sequences, FiniteSets, TLC

VARIABLES
    pc,             \* position of the callback: "get", "for", "done", "raised"
    game_type,      \* the game-type-select value passed to update_table
    status_code,    \* HTTP status of the schedule response (0: no response)
    schedule,       \* get_games_by_dates' return value: r_dict['dates']
    di,             \* outer loop position: index of `date` in schedule
    gi,             \* inner loop position: index of `game` in date['games']
    games_per_team, \* the dict being built, in insertion order
    raised,         \* the exception that left the callback, or "none"
    data,           \* update_table's row list
    table           \* update_table's return value / children of table-container

vars == <<pc, game_type, status_code, schedule, di, gi, games_per_team,
          raised, data, table>>

----------------------------------------------------------------------------
(* Bounds of the model *)

\* Most games in one fetched payload (over all its date groups).
MaxGames == 2

\* The dates the API can answer with, ascending.
DATES == <<"2022-10-12", "2022-10-13">>

\* The pairings <<home, away>> occurring in payloads: three league teams and
\* one team (99) that is not in TEAM_ABBR, two of them meeting both ways round.
Fixtures == {<<6, 15>>, <<15, 6>>, <<15, 10>>, <<10, 6>>, <<6, 99>>, <<99, 15>>}

\* The gameType codes occurring in payloads.
PayloadGameTypes == {"R", "P"}

\* Status codes of a response.
StatusCodes == {200, 404, 500}

----------------------------------------------------------------------------
(* Static data *)

\* app.py GAME_TYPES: the values of the game-type dropdown.
GAME_TYPES == {"all", "PR", "R", "P"}

TEAM_ABBR ==
    ("1" :> "NJD") @@ ("2" :> "NYI") @@ ("3" :> "NYR") @@ ("4" :> "PHI") @@
    ("5" :> "PIT") @@ ("6" :> "BOS") @@ ("7" :> "BUF") @@ ("8" :> "MTL") @@
    ("9" :> "OTT") @@ ("10" :> "TOR") @@ ("12" :> "CAR") @@ ("13" :> "FLA") @@
    ("14" :> "TBL") @@ ("15" :> "WSH") @@ ("16" :> "CHI") @@ ("17" :> "DET") @@
    ("18" :> "NSH") @@ ("19" :> "STL") @@ ("20" :> "CGY") @@ ("21" :> "COL") @@
    ("22" :> "EDM") @@ ("23" :> "VAN") @@ ("24" :> "ANA") @@ ("25" :> "DAL") @@
    ("26" :> "LAK") @@ ("28" :> "SJS") @@ ("29" :> "CBJ") @@ ("30" :> "MIN") @@
    ("52" :> "WPG") @@ ("53" :> "ARI") @@ ("54" :> "VGK") @@ ("55" :> "SEA")

\* The table-container's children before the callback has returned.
InitialChildren == "Data Table..."

----------------------------------------------------------------------------
(* Payloads *)

\* One element of a date group's 'games' array.
Game(t, h, a) ==
    [gameType |-> t,
     teams |-> [home |-> [team |-> [id |-> h]],
                away |-> [team |-> [id |-> a]]]]

Games == {Game(t, p[1], p[2]) : t \in PayloadGameTypes, p \in Fixtures}

\* Strictly ascending selections of DATES.
DateSelections ==
    {s \in UNION {[1..k -> 1..Len(DATES)] : k \in 0..Len(DATES)} :
        \A i \in 1..(Len(s) - 1) : s[i] < s[i + 1]}

\* The 'dates' array with the dates ds, the games fl, and game j in group cut[j].
DatesArray(ds, fl, cut) ==
    [i \in 1..Len(ds) |->
        [date  |-> DATES[ds[i]],
         games |-> SubSeq(fl,
                          Cardinality({j \in 1..Len(fl) : cut[j] < i}) + 1,
                          Cardinality({j \in 1..Len(fl) : cut[j] <= i}))]]

----------------------------------------------------------------------------
(* Python dict, in insertion order: a sequence of [key, value] items *)

DictKeys(d) == {d[i].key : i \in 1..Len(d)}

DictHas(d, k) == \E i \in 1..Len(d) : d[i].key = k

DictGet(d, k) == d[CHOOSE i \in 1..Len(d) : d[i].key = k].value

\* d[k] = v
DictSet(d, k, v) ==
    IF DictHas(d, k)
    THEN [i \in 1..Len(d) |-> IF d[i].key = k THEN [key |-> k, value |-> v] ELSE d[i]]
    ELSE Append(d, [key |-> k, value |-> v])

----------------------------------------------------------------------------
(* get_game_by_teams: the aggregation loop *)

\* The filter with its second comparison lost: `game_type == 'all' or game_type`.
MatchesAnyType(filter, game) == filter = "all" \/ filter # ""

\* Line 134: the game-type filter.
Matches(filter, game) == filter = "all" \/ filter = game.gameType

\* The record with the location of the home block kept in the away block.
RecordAlwaysHome(date, against, location, game) ==
    [date |-> date.date, against |-> against, location |-> "home",
     type |-> game.gameType]

\* The record a game adds to one team's list.
Record(date, against, location, game) ==
    [date |-> date.date, against |-> against, location |-> location,
     type |-> game.gameType]

\* The assignment without the old list: games_per_team[team] = [rec].
ConcatDropsList(list, rec) == <<rec>>

\* The concatenation the other way round: [rec] + games_per_team[team].
ConcatInFront(list, rec) == <<rec>> \o list

\* games_per_team[team] + [rec]
ConcatRecord(list, rec) == list \o <<rec>>

\* Lines 138-151 (and 153-166): append to the team's list, or start it.
AddRecord(gpt, team, rec) ==
    IF DictHas(gpt, team)
    THEN DictSet(gpt, team, ConcatRecord(DictGet(gpt, team), rec))
    ELSE DictSet(gpt, team, <<rec>>)

\* The loop body creating both teams' (empty) lists before the filter is tested.
LoopBodyKeysFirst(gpt, filter, date, game) ==
    LET home == game.teams.home.team.id
        away == game.teams.away.team.id
        g0   == IF DictHas(gpt, home) THEN gpt ELSE DictSet(gpt, home, <<>>)
        g1   == IF DictHas(g0, away) THEN g0 ELSE DictSet(g0, away, <<>>)
    IN  IF Matches(filter, game)
        THEN AddRecord(AddRecord(g1, home, Record(date, away, "home", game)),
                       away, Record(date, home, "away", game))
        ELSE g1

\* Lines 134-166: the body of the inner loop for one game of one date group.
LoopBody(gpt, filter, date, game) ==
    IF Matches(filter, game)
    THEN LET home == game.teams.home.team.id
             away == game.teams.away.team.id
             g1   == AddRecord(gpt, home, Record(date, away, "home", game))
         IN  AddRecord(g1, away, Record(date, home, "away", game))
    ELSE gpt

\* The two for loops: the first position at or after (d, g) that holds a game,
\* or <<Len(s) + 1, 1>> when the loops are exhausted.
RECURSIVE Seek(_, _, _)
Seek(s, d, g) ==
    IF d > Len(s) THEN <<d, 1>>
    ELSE IF g <= Len(s[d].games) THEN <<d, g>>
    ELSE Seek(s, d + 1, 1)

----------------------------------------------------------------------------
(* update_table: rows, sort, table *)

\* The row counting the team's home games only.
RowOfHomeGames(teams, team_id, games) ==
    [team |-> teams[ToString(team_id)],
     game_count |-> Cardinality({j \in 1..Len(games) : games[j].location = "home"})]

\* Lines 137-140: one row.
Row(teams, team_id, games) ==
    [team |-> teams[ToString(team_id)], game_count |-> Len(games)]

\* Lines 136-143: the list comprehension over team_schdule.items(), from item i.
RECURSIVE Rows(_, _)
Rows(team_schdule, i) ==
    IF i > Len(team_schdule) THEN <<>>
    ELSE LET team_id == team_schdule[i].key
             games   == team_schdule[i].value
         IN  (IF ToString(team_id) \in DOMAIN TEAM_ABBR
              THEN <<Row(TEAM_ABBR, team_id, games)>>
              ELSE <<>>)
             \o Rows(team_schdule, i + 1)

\* A descending sort that is not stable: a row goes in front of its equals.
InsertPointBeforeEquals(sorted, row) ==
    Cardinality({j \in 1..Len(sorted) : sorted[j].game_count > row.game_count})

\* Where list.sort(key, reverse=True) puts a row among rows already placed:
\* after every row whose key is greater or equal (the sort is stable).
InsertPoint(sorted, row) ==
    Cardinality({j \in 1..Len(sorted) : sorted[j].game_count >= row.game_count})

\* Line 147: data.sort(key=lambda team: team['game_count'], reverse=True).
RECURSIVE SortRows(_)
SortRows(rows) ==
    IF rows = <<>> THEN <<>>
    ELSE LET n    == Len(rows)
             done == SortRows(SubSeq(rows, 1, n - 1))
             k    == InsertPoint(done, rows[n])
         IN  SubSeq(done, 1, k) \o <<rows[n]>> \o SubSeq(done, k + 1, Len(done))

\* Line 148.
HighestCount(rows) == rows[1].game_count

\* The lowest count read from the wrong end of the sorted rows.
LowestCountFromFront(rows) == rows[1].game_count

\* Line 149.
LowestCount(rows) == rows[Len(rows)].game_count

\* Lines 169 and 178: the f-string f"{{game_count}} = {count}".
FilterQuery(count) == "{game_count} = " \o ToString(count)

\* Lines 161-184: style_data_conditional ("" : a rule without filter_query).
StyleDataConditional(highest_count, lowest_count) ==
    << [column_id |-> "game_count", filter_query |-> "",
        style |-> "bold"],
       [column_id |-> "game_count", filter_query |-> FilterQuery(highest_count),
        style |-> "rgb(204, 255, 204)"],
       [column_id |-> "game_count", filter_query |-> FilterQuery(lowest_count),
        style |-> "rgb(255, 229, 204)"] >>

\* The rows a rule applies to: all without a filter_query, else those whose
\* game_count the query equates.
RuleSelects(rule, row) ==
    rule.filter_query = "" \/ rule.filter_query = FilterQuery(row.game_count)

\* The table built whether or not there are rows.
TableAlways(rows) ==
    [component |-> "DataTable", children |-> "", data |-> rows,
     style_data_conditional |->
         IF rows # <<>>
         THEN StyleDataConditional(HighestCount(rows), LowestCount(rows))
         ELSE <<>>]

\* Lines 145-187: the placeholder, or the DataTable over the sorted rows.
Table(rows) ==
    IF rows # <<>>
    THEN [component |-> "DataTable", children |-> "", data |-> rows,
          style_data_conditional |->
              StyleDataConditional(HighestCount(rows), LowestCount(rows))]
    ELSE [component |-> "str", children |-> "No data retrieved...",
          data |-> <<>>, style_data_conditional |-> <<>>]

\* Line 146-147: the rows are sorted only when there are any.
SortedData(rows) == IF rows # <<>> THEN SortRows(rows) ELSE rows

----------------------------------------------------------------------------
(* The callback as a state machine *)

NoTable ==
    [component |-> "str", children |-> InitialChildren,
     data |-> <<>>, style_data_conditional |-> <<>>]

Init ==
    /\ pc = "get"
    /\ game_type \in GAME_TYPES
    /\ status_code = 0
    /\ schedule = <<>>
    /\ di = 1
    /\ gi = 1
    /\ games_per_team = <<>>
    /\ raised = "none"
    /\ data = <<>>
    /\ table = NoTable

\* Line 108: requests.get raises (no connection, timeout, ...).
RequestFails ==
    /\ pc = "get"
    /\ pc' = "raised"
    /\ raised' = "ConnectionError"
    /\ UNCHANGED <<game_type, status_code, schedule, di, gi, games_per_team,
                   data, table>>

\* Lines 108-110: a response whose text is not JSON.
ResponseMalformed ==
    /\ pc = "get"
    /\ \E sc \in StatusCodes : status_code' = sc
    /\ pc' = "raised"
    /\ raised' = "JSONDecodeError"
    /\ UNCHANGED <<game_type, schedule, di, gi, games_per_team, data, table>>

\* Lines 108-110: a response whose JSON has no 'dates' member.
ResponseWithoutDates ==
    /\ pc = "get"
    /\ \E sc \in StatusCodes : status_code' = sc
    /\ pc' = "raised"
    /\ raised' = "KeyError"
    /\ UNCHANGED <<game_type, schedule, di, gi, games_per_team, data, table>>

\* Lines 108-110 and 129-131: a response whose JSON has 'dates'; the loops start.
\* A response that is not 200 carries no games.
ResponseWithDates ==
    /\ pc = "get"
    /\ \E sc \in StatusCodes :
       \E ds \in DateSelections :
       \E fl \in UNION {[1..n -> Games] : n \in 0..(IF sc = 200 THEN MaxGames ELSE 0)} :
       \E cut \in {c \in [1..Len(fl) -> 1..Len(ds)] :
                      \A j \in 1..(Len(fl) - 1) : c[j] <= c[j + 1]} :
          /\ status_code' = sc
          /\ schedule' = DatesArray(ds, fl, cut)
          /\ di' = Seek(DatesArray(ds, fl, cut), 1, 1)[1]
          /\ gi' = Seek(DatesArray(ds, fl, cut), 1, 1)[2]
    /\ games_per_team' = <<>>
    /\ pc' = "for"
    /\ UNCHANGED <<game_type, raised, data, table>>

\* Lines 132-166: one pass of the inner loop.
NextGame ==
    /\ pc = "for"
    /\ di <= Len(schedule)
    /\ games_per_team' =
          LoopBody(games_per_team, game_type, schedule[di], schedule[di].games[gi])
    /\ di' = Seek(schedule, di, gi + 1)[1]
    /\ gi' = Seek(schedule, di, gi + 1)[2]
    /\ UNCHANGED <<pc, game_type, status_code, schedule, raised, data, table>>

\* nhl_api.py line 168 and app.py lines 133-187: the mapping is returned and
\* update_table builds, sorts and returns the table.
Render ==
    /\ pc = "for"
    /\ di > Len(schedule)
    /\ data' = SortedData(Rows(games_per_team, 1))
    /\ table' = Table(SortedData(Rows(games_per_team, 1)))
    /\ pc' = "done"
    /\ UNCHANGED <<game_type, status_code, schedule, di, gi, games_per_team, raised>>

Next ==
    \/ RequestFails
    \/ ResponseMalformed
    \/ ResponseWithoutDates
    \/ ResponseWithDates
    \/ NextGame
    \/ Render

Spec == Init /\ [][Next]_vars

----------------------------------------------------------------------------
(* Vocabulary of the properties, stated over the fetched payload itself *)

\* The games of a 'dates' array from group d on, each with its group's date,
\* in array order.
RECURSIVE FlatFrom(_, _)
FlatFrom(s, d) ==
    IF d > Len(s) THEN <<>>
    ELSE [j \in 1..Len(s[d].games) |-> [date |-> s[d].date, game |-> s[d].games[j]]]
         \o FlatFrom(s, d + 1)

Fetched == FlatFrom(schedule, 1)

\* The fetched games the loops have been through.
Processed ==
    SubSeq(Fetched, 1, Len(FlatFrom(SubSeq(schedule, 1, di - 1), 1)) + gi - 1)

PassesFilter(e) == game_type = "all" \/ e.game.gameType = game_type

HomeOf(e) == e.game.teams.home.team.id
AwayOf(e) == e.game.teams.away.team.id

HomeView(e) ==
    [date |-> e.date, against |-> AwayOf(e), location |-> "home",
     type |-> e.game.gameType]
AwayView(e) ==
    [date |-> e.date, against |-> HomeOf(e), location |-> "away",
     type |-> e.game.gameType]

Count(seq, x) == Cardinality({i \in 1..Len(seq) : seq[i] = x})

ListOf(team) == IF DictHas(games_per_team, team) THEN DictGet(games_per_team, team) ELSE <<>>

RECURSIVE SumLen(_, _)
SumLen(d, i) == IF i > Len(d) THEN 0 ELSE Len(d[i].value) + SumLen(d, i + 1)

Returned == pc = "done"

LeagueKeys == {k \in DictKeys(games_per_team) : ToString(k) \in DOMAIN TEAM_ABBR}

\* What one team's list must be after the games seq, in processing order.
RECURSIVE Expected(_, _)
Expected(team, seq) ==
    IF seq = <<>> THEN <<>>
    ELSE LET e == seq[Len(seq)]
         IN  Expected(team, SubSeq(seq, 1, Len(seq) - 1))
             \o (IF PassesFilter(e) /\ HomeOf(e) = team THEN <<HomeView(e)>> ELSE <<>>)
             \o (IF PassesFilter(e) /\ AwayOf(e) = team THEN <<AwayView(e)>> ELSE <<>>)

----------------------------------------------------------------------------
(* The properties *)

\* C1: every fetched game that passes the filter has exactly one record in its
\* home team's list (against the away team, location home) and exactly one in
\* its away team's list (against the home team, location away), with the date
\* of its date group and its gameType: per team, as many such records as games.
C1_TwoRecordsPerGame ==
    Returned =>
        \A k \in 1..Len(Fetched) :
            PassesFilter(Fetched[k]) =>
                LET e    == Fetched[k]
                    same == {j \in 1..Len(Fetched) :
                                Fetched[j] = e /\ PassesFilter(Fetched[j])}
                IN  /\ Count(ListOf(HomeOf(e)), HomeView(e)) = Cardinality(same)
                    /\ Count(ListOf(AwayOf(e)), AwayView(e)) = Cardinality(same)

C1_Witness ==
    /\ Returned
    /\ game_type = "R"
    /\ \E k \in 1..Len(Fetched) :
          /\ PassesFilter(Fetched[k])
          /\ Count(ListOf(HomeOf(Fetched[k])), HomeView(Fetched[k])) = 1
          /\ Count(ListOf(AwayOf(Fetched[k])), AwayView(Fetched[k])) = 1

\* C2: with a filter other than 'all' every record of every list has the
\* filter's type, and the returned mapping is empty exactly when no fetched
\* game passes the filter.
C2_FilterDecides ==
    /\ game_type # "all" =>
          \A i \in 1..Len(games_per_team) :
              \A j \in 1..Len(games_per_team[i].value) :
                  games_per_team[i].value[j].type = game_type
    /\ Returned =>
          ((games_per_team = <<>>) <=>
              ~ \E k \in 1..Len(Fetched) : PassesFilter(Fetched[k]))

C2_Witness ==
    /\ Returned
    /\ game_type = "P"
    /\ games_per_team # <<>>
    /\ \E k \in 1..Len(Fetched) : Fetched[k].game.gameType = "R"

\* C3: the lengths of all lists add up to twice the number of games that
\* passed the filter.
C3_SumIsTwiceTheGames ==
    pc \in {"for", "done"} =>
        SumLen(games_per_team, 1) =
            2 * Cardinality({k \in 1..Len(Processed) : PassesFilter(Processed[k])})

C3_Witness ==
    /\ Returned
    /\ \E j, k \in 1..Len(Fetched) :
          /\ j < k
          /\ PassesFilter(Fetched[j]) /\ PassesFilter(Fetched[k])
          /\ {HomeOf(Fetched[j]), AwayOf(Fetched[j])}
                = {HomeOf(Fetched[k]), AwayOf(Fetched[k])}
    /\ SumLen(games_per_team, 1) = 4

\* C4: a network failure or a response that is not 2xx leaves the callback as
\* a transport error (a parse error at most, when its text is not JSON either),
\* and a callback that raised has built no mapping and no table.
TransportErrors == {"ConnectionError", "HTTPError"}
ParseErrors == {"JSONDecodeError"}

C4_TransportErrorSurfaces ==
    pc # "get" =>
        /\ status_code \notin 200..299 =>
              (pc = "raised" /\ raised \in TransportErrors \cup ParseErrors)
        /\ status_code = 0 => raised \in TransportErrors
        /\ pc = "raised" => (games_per_team = <<>> /\ table.children = InitialChildren)

\* C5: the rows are one per key of the mapping whose identifier, as a string,
\* is a key of TEAM_ABBR, with that abbreviation and the length of that team's
\* list; the other keys have no row.
C5_RowsAreTheLeagueKeys ==
    Returned =>
        /\ Len(data) = Cardinality(LeagueKeys)
        /\ \A k \in LeagueKeys :
              Count(data, [team |-> TEAM_ABBR[ToString(k)],
                           game_count |-> Len(ListOf(k))]) = 1
        /\ \A i \in 1..Len(data) :
              \E k \in LeagueKeys : data[i].team = TEAM_ABBR[ToString(k)]

C5_Witness ==
    /\ Returned
    /\ 99 \in DictKeys(games_per_team)
    /\ Len(games_per_team) = 3
    /\ Len(data) = 2

\* C6: an empty dates array gives an empty mapping and the placeholder, and a
\* table is returned only for a mapping that is not empty.
C6_NoDataPlaceholder ==
    /\ (Returned /\ schedule = <<>>) =>
          /\ games_per_team = <<>>
          /\ table.component = "str"
          /\ table.children = "No data retrieved..."
    /\ table.component = "DataTable" => (Returned /\ games_per_team # <<>>)

C6_Witness ==
    /\ Returned
    /\ schedule = <<>>
    /\ table.children = "No data retrieved..."

\* C7: the rows are in non-increasing game_count order, are a permutation of
\* the rows before the sort, and rows with equal game_count keep the order
\* they had before the sort.
C7_StableDescendingSort ==
    Returned =>
        LET before == Rows(games_per_team, 1)
            Pos(r) == CHOOSE i \in 1..Len(data) : data[i] = r
        IN  /\ \A i \in 1..(Len(data) - 1) :
                  data[i].game_count >= data[i + 1].game_count
            /\ Len(data) = Len(before)
            /\ \A i \in 1..Len(before) : Count(data, before[i]) = Count(before, before[i])
            /\ \A i, j \in 1..Len(before) :
                  (i < j /\ before[i].game_count = before[j].game_count)
                      => Pos(before[i]) < Pos(before[j])
            /\ \A i, j \in 1..Len(games_per_team) :
                  LET ki == games_per_team[i].key
                      kj == games_per_team[j].key
                  IN  (/\ i < j
                       /\ {ki, kj} \subseteq LeagueKeys
                       /\ Len(games_per_team[i].value) = Len(games_per_team[j].value))
                      => \E a, b \in 1..Len(data) :
                            /\ a < b
                            /\ data[a].team = TEAM_ABBR[ToString(ki)]
                            /\ data[b].team = TEAM_ABBR[ToString(kj)]

C7_Witness ==
    /\ Returned
    /\ Len(data) = 3
    /\ data # Rows(games_per_team, 1)
    /\ data[2].game_count = data[3].game_count

\* C8: every key of the mapping is the home or away team of a game that passed
\* the filter, and its list is not empty.
C8_KeysAreParticipants ==
    \A i \in 1..Len(games_per_team) :
        /\ games_per_team[i].value # <<>>
        /\ \E k \in 1..Len(Processed) :
              /\ PassesFilter(Processed[k])
              /\ games_per_team[i].key \in {HomeOf(Processed[k]), AwayOf(Processed[k])}

C8_Witness ==
    /\ Returned
    /\ game_type = "R"
    /\ Len(games_per_team) = 2
    /\ \E k \in 1..Len(Fetched) :
          /\ ~ PassesFilter(Fetched[k])
          /\ ~ DictHas(games_per_team, HomeOf(Fetched[k]))

\* The rows of the table that rule n of style_data_conditional applies to.
Selected(n) ==
    {i \in 1..Len(table.data) :
        RuleSelects(table.style_data_conditional[n], table.data[i])}

CountsShown == {table.data[i].game_count : i \in 1..Len(table.data)}

MaxShown == CHOOSE c \in CountsShown : \A x \in CountsShown : x <= c
MinShown == CHOOSE c \in CountsShown : \A x \in CountsShown : x >= c

\* C9 as stated: the highest-count rule and the lowest-count rule carry the
\* maximum and the minimum count and each distinguish one row.
C9_OneRowEach ==
    table.component = "DataTable" =>
        /\ table.style_data_conditional[2].filter_query = "{game_count} = " \o ToString(MaxShown)
        /\ table.style_data_conditional[3].filter_query = "{game_count} = " \o ToString(MinShown)
        /\ Cardinality(Selected(2)) = 1
        /\ Cardinality(Selected(3)) = 1

\* C9 (amended): the highest-count rule carries the maximum count and the
\* lowest-count rule the minimum, and each applies to every row with that
\* count: at least one row, and all of the rows that tie on it.
C9_EveryRowWithTheCount ==
    table.component = "DataTable" =>
        /\ table.style_data_conditional[2].filter_query = "{game_count} = " \o ToString(MaxShown)
        /\ table.style_data_conditional[3].filter_query = "{game_count} = " \o ToString(MinShown)
        /\ Selected(2) = {i \in 1..Len(table.data) : table.data[i].game_count = MaxShown}
        /\ Selected(3) = {i \in 1..Len(table.data) : table.data[i].game_count = MinShown}
        /\ Selected(2) # {} /\ Selected(3) # {}

C9_Witness ==
    /\ table.component = "DataTable"
    /\ Cardinality(Selected(2)) = 1
    /\ Cardinality(Selected(3)) = 2

\* C10: each team's list holds its records in processing order: date groups in
\* array order, then games in the order of their group; every pass of the loop
\* leaves the earlier records where they were and puts the new one last.
C10_ProcessingOrder ==
    pc \in {"for", "done"} =>
        \A i \in 1..Len(games_per_team) :
            games_per_team[i].value = Expected(games_per_team[i].key, Processed)

C10_Witness ==
    /\ Returned
    /\ \E i \in 1..Len(games_per_team) :
          /\ Len(games_per_team[i].value) = 2
          /\ games_per_team[i].value[1].date = DATES[1]
          /\ games_per_team[i].value[2].date = DATES[2]
          /\ games_per_team[i].value[1].location = "away"

====
